---------------------------- MODULE Spec2Model ----------------------------
(* Task API (app/main.py): an in-memory mapping of integer ids to Task     *)
(* records behind five HTTP handlers, and the test fixture of              *)
(* tests/conftest.py.                                                      *)
(*                                                                         *)
(* Spec     : requests handled one after the other, each handler atomic.   *)
(* SpecConc : handlers run on worker threads; the membership test and the  *)
(*            mutation of a handler are separate steps that interleave.    *)
EXTENDS Integers, FiniteSets, Sequences, TLC

\* Task ids range over 1..MaxId (path parameters and body ids alike).
MaxId == 2
\* Worker threads that run handlers concurrently under SpecConc.
NumWorkers == 2

Ids == 1..MaxId
Titles == {"a", "b"}
Workers == 1..NumWorkers

VARIABLES
    tasks,      \* main.py:14, the module-level dict the handlers use
    app_attrs,  \* attributes set on the FastAPI object `app` (conftest.py:17)
    resp,       \* the response to the last request handled (Spec)
    live,       \* history: ids whose POST returned 200, not since DELETEd with 200
    removed,    \* history: ids whose DELETE returned 200, no POST 200 since
    fresh,      \* history: the fixture ran and only GET /tasks was served since
    pc,         \* SpecConc: each worker's position in its handler
    cur,        \* SpecConc: the request each worker is handling
    status      \* SpecConc: the status code each worker answered with

vars == <<tasks, app_attrs, resp, live, removed, fresh, pc, cur, status>>

---------------------------------------------------------------------------
(* JSON values of a request body, before validation.                       *)

Absent   == [kind |-> "absent", int |-> 0, str |-> "", bool |-> FALSE]
JInt(n)  == [kind |-> "int",    int |-> n, str |-> "", bool |-> FALSE]
JStr(s)  == [kind |-> "str",    int |-> 0, str |-> s,  bool |-> FALSE]
JBool(b) == [kind |-> "bool",   int |-> 0, str |-> "", bool |-> b]

\* The bodies a client sends.  Well-typed ones, with `completed` given or
\* omitted:
TypedBodies ==
    [id : {JInt(i) : i \in Ids}, title : {JStr(t) : t \in Titles},
     completed : {JBool(TRUE), JBool(FALSE), Absent}]
\* one whose fields pydantic coerces ("1" to an int, "true" to a bool):
CoercedBodies ==
    {[id |-> JStr("1"), title |-> JStr("a"), completed |-> JStr("true")]}
\* and ill-formed ones: title missing, title a number, id not a number,
\* completed not a boolean.
BadBodies ==
    {[id |-> JInt(1),   title |-> Absent,    completed |-> Absent],
     [id |-> JInt(1),   title |-> JInt(7),   completed |-> JBool(FALSE)],
     [id |-> JStr("x"), title |-> JStr("a"), completed |-> Absent],
     [id |-> JInt(1),   title |-> JStr("a"), completed |-> JStr("maybe")]}
Bodies == TypedBodies \cup CoercedBodies \cup BadBodies
\* The bodies sent with PUT /tasks/{task_id}: every body above that names
\* task_id or fails validation, and for each other id one body naming it.
PutBodies(task_id) ==
    {b \in TypedBodies : b.id = JInt(task_id) \/ (b.title = JStr("a") /\ b.completed = Absent)}
        \cup {b \in CoercedBodies : task_id = 1} \cup BadBodies
NoBody        == [id |-> Absent, title |-> Absent, completed |-> Absent]

\* Task.id: int -- an integer, or a string of digits.
IdOk(v) == \/ v.kind = "int"
           \/ v.kind = "str" /\ v.str \in {"1"}
IdOf(v) == IF v.kind = "int" THEN v.int ELSE 1

\* Task.title: str, required.
TitleOk(v) == v.kind = "str"

\* Task.completed: bool = False.
CompletedOk(v) == \/ v.kind \in {"absent", "bool"}
                  \/ v.kind = "str" /\ v.str \in {"true"}
CompletedOf(v) == CASE v.kind = "absent" -> FALSE
                    [] v.kind = "bool"   -> v.bool
                    [] OTHER             -> TRUE

\* Whether a body passes the Task model's validation.
TaskValid(body) == IdOk(body.id) /\ TitleOk(body.title) /\ CompletedOk(body.completed)

\* Task with `completed: bool = True`: the default of the field inverted.
TaskDefaultTrue(body) ==
    [id        |-> IdOf(body.id),
     title     |-> body.title.str,
     completed |-> IF body.completed.kind = "absent" THEN TRUE
                   ELSE CompletedOf(body.completed)]

\* The Task a valid body parses to.
Task(body) == [id        |-> IdOf(body.id),
               title     |-> body.title.str,
               completed |-> CompletedOf(body.completed)]

NoTask == [id |-> 0, title |-> "", completed |-> FALSE]

---------------------------------------------------------------------------
(* The dict operations the handlers use.                                   *)

EmptyStore == [i \in {} |-> NoTask]

\* key in tasks
Contains(store, key) == key \in DOMAIN store

\* tasks[key] = task
SetItem(store, key, task) ==
    [i \in DOMAIN store \cup {key} |-> IF i = key THEN task ELSE store[i]]

\* tasks.clear() in place of del tasks[key].
DelItemClear(store, key) == [i \in {} |-> store[key]]

\* del tasks[key]   (the key is present)
DelItem(store, key) == [i \in DOMAIN store \ {key} |-> store[i]]

\* A response: status code, HTTPException detail or message, and the body
\* (a Task, as a set of at most one record, or the whole mapping).
Reply(op, path, body, code, detail, task, listing) ==
    [op |-> op, path |-> path, req |-> body, status |-> code,
     detail |-> detail, task |-> task, listing |-> listing]

NoResp == Reply("none", 0, NoBody, 0, "", {}, EmptyStore)

ConcIdle == /\ pc = [w \in Workers |-> "idle"]
            /\ cur = [w \in Workers |-> [op |-> "none", task_id |-> 0, task |-> NoTask]]
            /\ status = [w \in Workers |-> 0]

Init == /\ tasks = EmptyStore
        /\ app_attrs = [a \in {} |-> EmptyStore]
        /\ resp = NoResp
        /\ live = {}
        /\ removed = {}
        /\ fresh = FALSE
        /\ ConcIdle

---------------------------------------------------------------------------
(* Spec: the handlers, each taken as one step.                             *)

\* GET /tasks
get_tasks ==
    /\ resp' = Reply("GET_ALL", 0, NoBody, 200, "", {}, tasks)
    /\ UNCHANGED <<tasks, app_attrs, live, removed, fresh, pc, cur, status>>

\* GET /tasks/{task_id}
get_task(task_id) ==
    /\ IF ~Contains(tasks, task_id)
       THEN resp' = Reply("GET", task_id, NoBody, 404, "Task not found", {}, EmptyStore)
       ELSE resp' = Reply("GET", task_id, NoBody, 200, "", {tasks[task_id]}, EmptyStore)
    /\ fresh' = FALSE
    /\ UNCHANGED <<tasks, app_attrs, live, removed, pc, cur, status>>

\* The answer to a body that fails validation: the handler is not called.
Unprocessable(op, path, body) ==
    /\ resp' = Reply(op, path, body, 422, "validation error", {}, EmptyStore)
    /\ fresh' = FALSE
    /\ UNCHANGED <<tasks, app_attrs, live, removed, pc, cur, status>>

\* create_task without its conflict test: the body is stored in any case.
create_task_no_conflict(body) ==
    LET task == Task(body) IN
    /\ tasks' = SetItem(tasks, task.id, task)
    /\ resp' = Reply("POST", 0, body, 200, "", {task}, EmptyStore)
    /\ live' = live \cup {task.id}
    /\ removed' = removed \ {task.id}
    /\ fresh' = FALSE
    /\ UNCHANGED <<app_attrs, pc, cur, status>>

\* POST /tasks, body already validated
create_task(body) ==
    LET task == Task(body) IN
    /\ IF Contains(tasks, task.id)
       THEN /\ resp' = Reply("POST", 0, body, 409, "Task already exists", {}, EmptyStore)
            /\ UNCHANGED <<tasks, live, removed>>
       ELSE /\ tasks' = SetItem(tasks, task.id, task)
            /\ resp' = Reply("POST", 0, body, 200, "", {task}, EmptyStore)
            /\ live' = live \cup {task.id}
            /\ removed' = removed \ {task.id}
    /\ fresh' = FALSE
    /\ UNCHANGED <<app_attrs, pc, cur, status>>

\* update_task without its existence test: an upsert.
update_task_upsert(task_id, body) ==
    LET task == Task(body) IN
    /\ tasks' = SetItem(tasks, task_id, task)
    /\ resp' = Reply("PUT", task_id, body, 200, "", {task}, EmptyStore)
    /\ fresh' = FALSE
    /\ UNCHANGED <<app_attrs, live, removed, pc, cur, status>>

\* PUT /tasks/{task_id}, body already validated
update_task(task_id, body) ==
    LET task == Task(body) IN
    /\ IF ~Contains(tasks, task_id)
       THEN /\ resp' = Reply("PUT", task_id, body, 404, "Task not found", {}, EmptyStore)
            /\ UNCHANGED tasks
       ELSE /\ tasks' = SetItem(tasks, task_id, task)
            /\ resp' = Reply("PUT", task_id, body, 200, "", {task}, EmptyStore)
    /\ fresh' = FALSE
    /\ UNCHANGED <<app_attrs, live, removed, pc, cur, status>>

\* delete_task without `del tasks[task_id]`: 200 is answered, the entry stays.
delete_task_keep(task_id) ==
    /\ IF ~Contains(tasks, task_id)
       THEN /\ resp' = Reply("DELETE", task_id, NoBody, 404, "Task not found", {}, EmptyStore)
            /\ UNCHANGED <<live, removed>>
       ELSE /\ resp' = Reply("DELETE", task_id, NoBody, 200, "Task deleted", {}, EmptyStore)
            /\ live' = live \ {task_id}
            /\ removed' = removed \cup {task_id}
    /\ fresh' = FALSE
    /\ UNCHANGED <<tasks, app_attrs, pc, cur, status>>

\* DELETE /tasks/{task_id}
delete_task(task_id) ==
    /\ IF ~Contains(tasks, task_id)
       THEN /\ resp' = Reply("DELETE", task_id, NoBody, 404, "Task not found", {}, EmptyStore)
            /\ UNCHANGED <<tasks, live, removed>>
       ELSE /\ tasks' = DelItem(tasks, task_id)
            /\ resp' = Reply("DELETE", task_id, NoBody, 200, "Task deleted", {}, EmptyStore)
            /\ live' = live \ {task_id}
            /\ removed' = removed \cup {task_id}
    /\ fresh' = FALSE
    /\ UNCHANGED <<app_attrs, pc, cur, status>>

\* POST /tasks with the conflict test ahead of the validation of the body.
PostTasksLate(body) ==
    IF body.id.kind = "int" /\ Contains(tasks, body.id.int)
    THEN /\ resp' = Reply("POST", 0, body, 409, "Task already exists", {}, EmptyStore)
         /\ fresh' = FALSE
         /\ UNCHANGED <<tasks, app_attrs, live, removed, pc, cur, status>>
    ELSE \/ /\ ~TaskValid(body)
            /\ Unprocessable("POST", 0, body)
         \/ /\ TaskValid(body)
            /\ create_task(body)

\* The route POST /tasks: validation of the body, then the handler.
PostTasks(body) ==
    \/ /\ ~TaskValid(body)
       /\ Unprocessable("POST", 0, body)
    \/ /\ TaskValid(body)
       /\ create_task(body)

\* The route PUT /tasks/{task_id}: validation of the body, then the handler.
PutTask(task_id, body) ==
    \/ /\ ~TaskValid(body)
       /\ Unprocessable("PUT", task_id, body)
    \/ /\ TaskValid(body)
       /\ update_task(task_id, body)

\* The `client` fixture: app.tasks = {} sets an attribute of the FastAPI
\* object; the handlers' global `tasks` is another object and is untouched.
client ==
    /\ app_attrs' = [a \in DOMAIN app_attrs \cup {"tasks"} |-> EmptyStore]
    /\ resp' = NoResp
    /\ fresh' = TRUE
    /\ UNCHANGED <<tasks, live, removed, pc, cur, status>>

Next ==
    \/ get_tasks
    \/ \E task_id \in Ids : get_task(task_id)
    \/ \E body \in Bodies : PostTasks(body)
    \/ \E task_id \in Ids : \E body \in PutBodies(task_id) : PutTask(task_id, body)
    \/ \E task_id \in Ids : delete_task(task_id)
    \/ client

Spec == Init /\ [][Next]_vars

---------------------------------------------------------------------------
(* SpecConc: the handlers on worker threads.  A handler's membership test  *)
(* and its dict operation are separate steps; the store holds no lock.     *)

SeqVars == <<app_attrs, resp, live, removed, fresh>>

Request(op, task_id, task) == [op |-> op, task_id |-> task_id, task |-> task]

\* Worker w goes to position p, answering with `code` when p is "done".
Goto(w, p, code) ==
    /\ pc' = [pc EXCEPT ![w] = p]
    /\ status' = [status EXCEPT ![w] = code]
    /\ cur' = IF p = "done" THEN [cur EXCEPT ![w].task = NoTask] ELSE cur

\* A request arrives at an idle worker; a body that fails validation is
\* answered 422 without the handler being called.
Receive(w, op, task_id, body, entry) ==
    /\ pc[w] = "idle"
    /\ IF op \in {"POST", "PUT"} /\ ~TaskValid(body)
       THEN /\ pc' = [pc EXCEPT ![w] = "done"]
            /\ status' = [status EXCEPT ![w] = 422]
            /\ cur' = [cur EXCEPT ![w] = Request(op, task_id, NoTask)]
       ELSE /\ pc' = [pc EXCEPT ![w] = entry]
            /\ status' = [status EXCEPT ![w] = 0]
            /\ cur' = [cur EXCEPT ![w] =
                          Request(op, task_id,
                                  IF op \in {"POST", "PUT"} THEN Task(body) ELSE NoTask)]
    /\ UNCHANGED <<tasks, SeqVars>>

\* get_tasks: return tasks
get_tasks_read(w) ==
    /\ pc[w] = "get_tasks"
    /\ Goto(w, "done", 200)
    /\ UNCHANGED <<tasks, SeqVars>>

\* get_task: if task_id not in tasks: raise 404
get_task_check(w) ==
    /\ pc[w] = "get_check"
    /\ IF ~Contains(tasks, cur[w].task_id)
       THEN Goto(w, "done", 404)
       ELSE Goto(w, "get_read", 0)
    /\ UNCHANGED <<tasks, SeqVars>>

\* get_task: return tasks[task_id]   (KeyError when the key is gone: 500)
get_task_read(w) ==
    /\ pc[w] = "get_read"
    /\ IF Contains(tasks, cur[w].task_id)
       THEN Goto(w, "done", 200)
       ELSE Goto(w, "done", 500)
    /\ UNCHANGED <<tasks, SeqVars>>

\* create_task: if task.id in tasks: raise 409
create_task_check(w) ==
    /\ pc[w] = "create_check"
    /\ IF Contains(tasks, cur[w].task.id)
       THEN Goto(w, "done", 409)
       ELSE Goto(w, "create_store", 0)
    /\ UNCHANGED <<tasks, SeqVars>>

\* create_task: tasks[task.id] = task; return task
create_task_store(w) ==
    /\ pc[w] = "create_store"
    /\ tasks' = SetItem(tasks, cur[w].task.id, cur[w].task)
    /\ Goto(w, "done", 200)
    /\ UNCHANGED SeqVars

\* update_task: if task_id not in tasks: raise 404
update_task_check(w) ==
    /\ pc[w] = "update_check"
    /\ IF ~Contains(tasks, cur[w].task_id)
       THEN Goto(w, "done", 404)
       ELSE Goto(w, "update_store", 0)
    /\ UNCHANGED <<tasks, SeqVars>>

\* update_task: tasks[task_id] = task; return task
update_task_store(w) ==
    /\ pc[w] = "update_store"
    /\ tasks' = SetItem(tasks, cur[w].task_id, cur[w].task)
    /\ Goto(w, "done", 200)
    /\ UNCHANGED SeqVars

\* delete_task: if task_id not in tasks: raise 404
delete_task_check(w) ==
    /\ pc[w] = "delete_check"
    /\ IF ~Contains(tasks, cur[w].task_id)
       THEN Goto(w, "done", 404)
       ELSE Goto(w, "delete_del", 0)
    /\ UNCHANGED <<tasks, SeqVars>>

\* delete_task: del tasks[task_id]   (KeyError when the key is gone: 500)
delete_task_del(w) ==
    /\ pc[w] = "delete_del"
    /\ IF Contains(tasks, cur[w].task_id)
       THEN /\ tasks' = DelItem(tasks, cur[w].task_id)
            /\ Goto(w, "done", 200)
       ELSE /\ UNCHANGED tasks
            /\ Goto(w, "done", 500)
    /\ UNCHANGED SeqVars

\* The response is sent and the worker is free again.
Respond(w) ==
    /\ pc[w] = "done"
    /\ pc' = [pc EXCEPT ![w] = "idle"]
    /\ cur' = [cur EXCEPT ![w] = Request("none", 0, NoTask)]
    /\ status' = [status EXCEPT ![w] = 0]
    /\ UNCHANGED <<tasks, SeqVars>>

NextConc ==
    \E w \in Workers :
        \/ Receive(w, "GET_ALL", 0, NoBody, "get_tasks")
        \/ \E task_id \in Ids : Receive(w, "GET", task_id, NoBody, "get_check")
        \/ \E body \in Bodies : Receive(w, "POST", 0, body, "create_check")
        \/ \E task_id \in Ids : \E body \in PutBodies(task_id) :
               Receive(w, "PUT", task_id, body, "update_check")
        \/ \E task_id \in Ids : Receive(w, "DELETE", task_id, NoBody, "delete_check")
        \/ get_tasks_read(w)
        \/ get_task_check(w)
        \/ get_task_read(w)
        \/ create_task_check(w)
        \/ create_task_store(w)
        \/ update_task_check(w)
        \/ update_task_store(w)
        \/ delete_task_check(w)
        \/ delete_task_del(w)
        \/ Respond(w)

SpecConc == Init /\ [][NextConc]_vars

---------------------------------------------------------------------------
(* Properties.                                                             *)

\* The Task a well-typed body describes, read off the body field by field.
Posted(body) ==
    [id        |-> body.id.int,
     title     |-> body.title.str,
     completed |-> IF body.completed = Absent THEN FALSE ELSE body.completed.bool]

\* The id a handled request is about: the path id, or the body's id for POST.
Target(r) ==
    IF r.op = "POST"
    THEN (IF TaskValid(r.req) THEN IdOf(r.req.id) ELSE 0)
    ELSE r.path

\* Entry j is the same before and after the step.
SameEntry(j) ==
    /\ (j \in DOMAIN tasks) = (j \in DOMAIN tasks')
    /\ j \in DOMAIN tasks => tasks'[j] = tasks[j]

\* C1: every stored Task's id field equals the key it is stored under.
C1_IdEqualsKey == \A k \in DOMAIN tasks : tasks[k].id = k

\* C2: a POST whose (valid) body names an id already in the store is
\* answered 409 "Task already exists" and leaves the store as it was.
C2_DuplicatePostRejected ==
    [][(/\ resp'.op = "POST"
        /\ resp'.req \in TypedBodies \cup CoercedBodies
        /\ IdOf(resp'.req.id) \in DOMAIN tasks)
       => (/\ resp'.status = 409
           /\ resp'.detail = "Task already exists"
           /\ tasks' = tasks)]_vars

\* C2 witness: a POST was answered 409 and its body differs from the Task
\* the store keeps under that id.
C2_Witness ==
    /\ resp.op = "POST"
    /\ resp.status = 409
    /\ resp.req \in TypedBodies
    /\ resp.req.id.int \in DOMAIN tasks
    /\ tasks[resp.req.id.int] # Posted(resp.req)

\* C3: a PUT on an id that is not in the store is answered 404 "Task not
\* found", leaves the store as it was, and a GET of that id right after
\* it is answered 404.
C3_PutIsNotUpsert ==
    [][/\ (/\ resp'.op = "PUT"
           /\ resp'.req \in TypedBodies \cup CoercedBodies
           /\ resp'.path \notin DOMAIN tasks)
          => (/\ resp'.status = 404
              /\ resp'.detail = "Task not found"
              /\ tasks' = tasks)
       /\ (/\ resp.op = "PUT"
           /\ resp.status = 404
           /\ resp'.op = "GET"
           /\ resp'.path = resp.path)
          => resp'.status = 404]_vars

\* C3 witness: a PUT with a valid body was answered 404 while the store
\* holds another Task, and its id is still not a key.
C3_Witness ==
    /\ resp.op = "PUT"
    /\ resp.status = 404
    /\ resp.req \in TypedBodies
    /\ resp.path \notin DOMAIN tasks
    /\ tasks # EmptyStore

C5_DeletedStaysGone ==
    [][\A i \in removed :
          (resp'.op \in {"GET", "DELETE"} /\ resp'.path = i)
          => (/\ resp'.status = 404
              /\ resp'.detail = "Task not found"
              /\ tasks' = tasks)]_vars

\* C5 witness: a DELETE was answered 404 for an id that an earlier DELETE
\* removed with 200.
C5_Witness ==
    /\ resp.op = "DELETE"
    /\ resp.status = 404
    /\ resp.path \in removed

\* C6: an id becomes a key of the store only by the store step of a POST
\* for that id, which answers 200.
C6_OnlyPostCreates ==
    [][\A i \in Ids :
          (i \notin DOMAIN tasks /\ i \in DOMAIN tasks')
          => \E w \in Workers : /\ pc[w] = "create_store"
                                /\ cur[w].task.id = i
                                /\ pc'[w] = "done"
                                /\ status'[w] = 200]_vars

\* C7: after the fixture ran, the store the handlers use is empty and
\* GET /tasks answers 200 with the empty mapping.
C7_FixtureEmptiesStore ==
    fresh => /\ tasks = EmptyStore
             /\ resp.op = "GET_ALL" => (resp.status = 200 /\ resp.listing = EmptyStore)

\* C8: a POST or PUT whose body fails validation is answered 422, never
\* 404 or 409, and leaves the store as it was, whether or not the id it
\* names is in the store.
C8_ValidationFirst ==
    [][(resp'.op \in {"POST", "PUT"} /\ resp'.req \in BadBodies)
       => (resp'.status = 422 /\ tasks' = tasks)]_vars

\* C8 witness: a POST whose body lacks its title and names a stored id was
\* answered 422.
C8_Witness ==
    /\ resp.op = "POST"
    /\ resp.status = 422
    /\ resp.req.title = Absent
    /\ resp.req.id.kind = "int"
    /\ resp.req.id.int \in DOMAIN tasks

\* C9: GET /tasks answers 200 with the whole store, whose keys are the ids
\* created by a POST answered 200 and not since removed by a DELETE
\* answered 200, and changes nothing; a request about one id leaves the
\* entry of every other id as it was.
C9_ListAndFrame ==
    [][/\ resp'.op = "GET_ALL"
          => (/\ resp'.status = 200
              /\ resp'.listing = tasks
              /\ DOMAIN resp'.listing = live
              /\ tasks' = tasks)
       /\ \A j \in Ids : j # Target(resp') => SameEntry(j)]_vars

\* C9 witness: GET /tasks returned a mapping with an entry while another
\* id had been created and deleted before.
C9_Witness ==
    /\ resp.op = "GET_ALL"
    /\ resp.status = 200
    /\ DOMAIN resp.listing # {}
    /\ removed # {}

\* C10: every DELETE handled ends with one of the two documented answers,
\* 200 or 404; none fails at the removal step because the key is gone.
C10_DeleteOutcomes ==
    \A w \in Workers :
        (pc[w] = "done" /\ cur[w].op = "DELETE") => status[w] \in {200, 404}

===========================================================================
